---- MODULE Spec2Model ----
(***************************************************************************)
(* Model of the DictLearner repository: the LCA sparse-inference solver    *)
(* (LCALearner.infer_cpu, LCALearner.infer_gpu with its iterate kernel)    *)
(* and the dictionary-learning trial loop (DictLearner.run, learn,         *)
(* store_statistics, save, adjust_rates), with the operations made between *)
(* runs: sorting (fast_sort, sort, sort_dict) and the two save/load pairs   *)
(* (save/load, save_params/load_params).                                   *)
(*                                                                         *)
(* Numbers.  A float is a record [k, n, d]: k = "fin" is the exact         *)
(* rational n/d in lowest terms (d > 0), k = "inf" is +inf (n = 1) or      *)
(* -inf (n = -1), k = "nan" is NaN.  Arithmetic follows IEEE-754 for the   *)
(* special values (inf - inf, 0 * inf = NaN; comparisons with NaN are      *)
(* false) and overflows to +-inf when a magnitude exceeds FloatMax, the    *)
(* scaled-down largest finite float.  Rounding is not modelled: finite     *)
(* results are exact.                                                      *)
(*                                                                         *)
(* Sizes.  The dictionary has nunits rows of dimension datasize, a batch   *)
(* holds batch_size stimuli.  datasize is 1 so that the Euclidean norm of  *)
(* a row is a rational number.                                             *)
(***************************************************************************)
EXTENDS Integers, Sequences, FiniteSets, TLC

\* ------------------------------------------------------------------ bounds
\* Largest finite magnitude of a float (scaled down from 1.8e308).
FloatMax == 100
\* self.niter ranges over 1..MaxNiter.
MaxNiter == 2
\* self.max_iter and the max_iter argument range over None, 0..MaxCap.
MaxCap == 2
\* Blocks an uncapped outer loop is followed for (it may run forever).
MaxOuter == 3
\* run's ntrials ranges over 1..MaxTrials.
MaxTrials == 2

\* ------------------------------------------------------------------- sizes
nunits == 2
batch_size == 1
datasize == 1

Units == 1..nunits
Stims == 1..batch_size
Dims == 1..datasize

\* ------------------------------------------------------------------ floats
RECURSIVE GCD(_, _)
GCD(a, b) == IF b = 0 THEN a ELSE GCD(b, a % b)

IAbs(i) == IF i < 0 THEN -i ELSE i

NaN == [k |-> "nan", n |-> 0, d |-> 1]
PInf == [k |-> "inf", n |-> 1, d |-> 1]
NInf == [k |-> "inf", n |-> -1, d |-> 1]

\* The float n/d (d > 0): lowest terms, +-inf beyond FloatMax.
Float(n, d) ==
    LET g == GCD(IAbs(n), d)
        nn == n \div g
        dd == d \div g
    IN IF n = 0 THEN [k |-> "fin", n |-> 0, d |-> 1]
       ELSE IF IAbs(nn) > FloatMax * dd
            THEN (IF nn > 0 THEN PInf ELSE NInf)
            ELSE [k |-> "fin", n |-> nn, d |-> dd]

Zero == Float(0, 1)
One == Float(1, 1)

IsNan(a) == a.k = "nan"
IsInf(a) == a.k = "inf"
IsFinite(a) == a.k = "fin"
SignOf(a) == IF a.n > 0 THEN 1 ELSE IF a.n < 0 THEN -1 ELSE 0

Neg(a) == IF IsNan(a) THEN NaN
          ELSE IF IsInf(a) THEN (IF a.n > 0 THEN NInf ELSE PInf)
          ELSE [k |-> "fin", n |-> -a.n, d |-> a.d]

Add(a, b) ==
    IF IsNan(a) \/ IsNan(b) THEN NaN
    ELSE IF IsInf(a) /\ IsInf(b) THEN (IF a.n = b.n THEN a ELSE NaN)
    ELSE IF IsInf(a) THEN a
    ELSE IF IsInf(b) THEN b
    ELSE Float(a.n * b.d + b.n * a.d, a.d * b.d)

Sub(a, b) == Add(a, Neg(b))

Mul(a, b) ==
    IF IsNan(a) \/ IsNan(b) THEN NaN
    ELSE IF IsInf(a) \/ IsInf(b)
         THEN (IF SignOf(a) * SignOf(b) = 0 THEN NaN
               ELSE IF SignOf(a) * SignOf(b) > 0 THEN PInf ELSE NInf)
    ELSE Float(a.n * b.n, a.d * b.d)

\* a / b as numpy divides floats: x/0 is +-inf, 0/0 is NaN.
Div(a, b) ==
    IF IsNan(a) \/ IsNan(b) THEN NaN
    ELSE IF IsInf(a) /\ IsInf(b) THEN NaN
    ELSE IF IsInf(a) THEN (IF SignOf(b) >= 0 THEN a ELSE Neg(a))
    ELSE IF IsInf(b) THEN Zero
    ELSE IF b.n = 0
         THEN (IF a.n = 0 THEN NaN ELSE IF a.n > 0 THEN PInf ELSE NInf)
    ELSE IF b.n > 0 THEN Float(a.n * b.d, a.d * b.n)
    ELSE Float(-(a.n * b.d), a.d * (-b.n))

\* a < b; false when either is NaN.
Lt(a, b) ==
    IF IsNan(a) \/ IsNan(b) THEN FALSE
    ELSE IF IsInf(a) THEN a.n < 0 /\ ~(IsInf(b) /\ b.n < 0)
    ELSE IF IsInf(b) THEN b.n > 0
    ELSE a.n * b.d < b.n * a.d

Gt(a, b) == Lt(b, a)
\* a >= b, a <= b; false when either is NaN.
Ge(a, b) == ~IsNan(a) /\ ~IsNan(b) /\ ~Lt(a, b)
Le(a, b) == Ge(b, a)

\* np.absolute
Absolute(a) == IF IsNan(a) THEN NaN ELSE IF IsInf(a) THEN PInf
               ELSE [k |-> "fin", n |-> IAbs(a.n), d |-> a.d]

\* np.sign
Sign(a) == IF IsNan(a) THEN NaN ELSE Float(SignOf(a), 1)

\* np.maximum and np.max of two: NaN if either is NaN.
Maximum(a, b) == IF IsNan(a) \/ IsNan(b) THEN NaN ELSE IF Lt(a, b) THEN b ELSE a

\* Integer square root (the largest r with r*r <= i), by bisection on lo..hi.
RECURSIVE ISqrtIn(_, _, _)
ISqrtIn(i, lo, hi) ==
    IF lo >= hi THEN lo
    ELSE LET mid == (lo + hi + 1) \div 2
         IN IF mid * mid <= i THEN ISqrtIn(i, mid, hi) ELSE ISqrtIn(i, lo, mid - 1)

ISqrt(i) == ISqrtIn(i, 0, IF i < 46340 THEN i ELSE 46340)

\* np.sqrt of a non-negative float whose root is rational.
Sqrt(a) == IF IsNan(a) THEN NaN
           ELSE IF IsInf(a) THEN (IF a.n > 0 THEN PInf ELSE NaN)
           ELSE IF a.n < 0 THEN NaN
           ELSE Float(ISqrt(a.n), ISqrt(a.d))

\* Python truthiness of a float: only 0.0 is false.
Truthy(a) == ~(IsFinite(a) /\ a.n = 0)

\* Sum f[1] + ... + f[n], left to right.
RECURSIVE SumTo(_, _)
SumTo(f, n) == IF n = 0 THEN Zero ELSE Add(SumTo(f, n - 1), f[n])

\* np.mean of f[1..n].
Mean(f, n) == Div(SumTo(f, n), Float(n, 1))

\* Optional values (None or a value).
None == [some |-> FALSE, v |-> 0]
Some(x) == [some |-> TRUE, v |-> x]
NoneF == [some |-> FALSE, v |-> Zero]
SomeF(x) == [some |-> TRUE, v |-> x]
NoneS == [some |-> FALSE, v |-> ""]
SomeS(x) == [some |-> TRUE, v |-> x]
\* Python's "a or b" for an optional int and an optional float.
OrInt(a, b) == IF a.some /\ a.v # 0 THEN a ELSE b
OrFloat(a, b) == IF a.some /\ Truthy(a.v) THEN a ELSE b

\* ------------------------------------------------------------------ inputs
Half == Float(1, 2)

\* rand_dict: random rows scaled to unit norm; with datasize = 1 a row is +-1.
RandDicts == [Units -> [Dims -> {One, Neg(One)}]]

\* Stimulus batches rand_stim may deliver.
StimValues == {Zero, One, Float(2, 1)}
StimBatches(values) == [Stims -> [Dims -> values]]
Batches == StimBatches(StimValues)

\* Values of self.max_iter and of the max_iter argument.
Caps == {None} \cup {Some(m) : m \in 0..MaxCap}

\* Values of the tolerance argument: absent, 0 (falsy), or a tolerance.
TolArgs == {NoneF, SomeF(Zero), SomeF(Float(4, 1))}

\* ------------------------------------------------------------------- state
VARIABLES
    self,       \* the learner's attributes: hyperparameters, paramfile, and
                \* stims, the values its stimulus set delivers
    Q,          \* the dictionary, Q[i][d]: row i (unit i), coordinate d
    pc,         \* position of the running call
    caller,     \* who called infer: "top" (a direct call) or "run"
    X,          \* the stimulus batch, X[st][d] (column st of the code's X)
    arg_max_iter,   \* the max_iter argument of the running infer call
    arg_tolerance,  \* the tolerance argument of the running infer call
    tolerance,  \* infer_cpu's local tolerance (after line 96)
    max_iter,   \* infer_cpu's local max_iter (after line 97)
    u,          \* u[st][i], internal (membrane) state
    s,          \* s[st][i], thresholded output
    ci,         \* ci[st][i], competition term
    thresh,     \* thresh[st], per-stimulus threshold (d_thresh on the GPU)
    error,      \* mean-squared error of the last finished block
    outer_k,    \* finished blocks of niter iterations
    kk,         \* inner iteration index
    tpc,        \* tpc[st][i]: position of kernel thread (st, i)
    treg,       \* treg[st][i]: thresh[st] as loaded by thread (st, i) at line 237
    exc,        \* the exception in flight: [type, at]
    ntrials,    \* run's ntrials argument
    trial,      \* run's loop variable
    rate_decay, \* run's rate_decay argument (None or a factor)
    normalize,  \* run's normalize argument
    thiserror,  \* the error learn returned in this trial
    errorhist, L0hist, L1hist, L2hist,   \* history sequences
    L0acts, L1acts, L2acts, meanacts,    \* per-unit moving averages
    corrmatrix_ave, \* moving-average correlation matrix, an ndarray [ndim, a]:
                \* ndim = 2 with a[i][j], or ndim = 1 with the single row a[1][j]
    file,       \* the checkpoint file: <<>> or <<the pickled list, tagged with
                \* kind, the method that wrote it>>
    saved,      \* <<>> or <<the dictionary and statistics the learner had when
                \* the file was written>>
    saves,      \* trials of this run in which a checkpoint save was attempted
    ndecay      \* adjust_rates calls made by this run

inferVars == <<X, arg_max_iter, arg_tolerance, tolerance, max_iter, u, s, ci,
               thresh, error, outer_k, kk, tpc, treg>>
statVars == <<errorhist, L0hist, L1hist, L2hist, L0acts, L1acts, L2acts,
              meanacts, corrmatrix_ave>>
runVars == <<ntrials, trial, rate_decay, normalize, thiserror, file, saved, saves,
             ndecay>>
vars == <<self, Q, pc, caller, exc, inferVars, statVars, runVars>>

NoExc == [type |-> "none", at |-> 0]

\* ------------------------------------------------------- inference: helpers
ZeroMat == [st \in Stims |-> [i \in Units |-> Zero]]

\* Q.dot(Q.T)[i][j]
Overlap(q, i, j) == SumTo([d \in Dims |-> Mul(q[i][d], q[j][d])], datasize)

\* infer_cpu: c = Q.dot(Q.T) - eye(ndict)
c_cpu(q) == [i \in Units |-> [j \in Units |->
                Sub(Overlap(q, i, j), IF i = j THEN One ELSE Zero)]]

\* infer_gpu: gemm, then csub zeroes the diagonal
c_gpu(q) == [i \in Units |-> [j \in Units |->
                IF i = j THEN Zero ELSE Overlap(q, i, j)]]

\* b[st][j]: overlap of stimulus st with dictionary element j
b_of(q, x) == [st \in Stims |-> [j \in Units |->
                SumTo([d \in Dims |-> Mul(q[j][d], x[st][d])], datasize)]]

\* np.absolute(b).mean(1)
MeanAbs(bb) == [st \in Stims |-> Mean([j \in Units |-> Absolute(bb[st][j])], nunits)]

\* infer_cpu's initial thresholds: floored at min_thresh
thresh_init_cpu(q, x) ==
    [st \in Stims |-> Maximum(MeanAbs(b_of(q, x))[st], self.min_thresh)]

\* infer_gpu's initial thresholds
thresh_init_gpu(q, x) == MeanAbs(b_of(q, x))

\* s.dot(c)
Competition(ss, cc) == [st \in Stims |-> [j \in Units |->
                SumTo([k \in Units |-> Mul(ss[st][k], cc[k][j])], nunits)]]

\* eta*(b - ci) + (1 - eta)*u, one entry
Leaky(eta, bv, civ, uv) == Add(Mul(eta, Sub(bv, civ)), Mul(Sub(One, eta), uv))

\* Mutant of hard_cpu: entries at the threshold are zeroed too.
hard_cpu_zero_at_thresh(uv, th) == IF Le(Absolute(uv), th) THEN Zero ELSE uv

\* infer_cpu, hard threshold: s = u; s[|s| < thresh] = 0
hard_cpu(uv, th) == IF Lt(Absolute(uv), th) THEN Zero ELSE uv

\* infer_cpu, soft threshold: sign(u) * maximum(0, |u| - thresh)
soft_cpu(uv, th) == Mul(Sign(uv), Maximum(Zero, Sub(Absolute(uv), th)))

threshold_cpu(soft, uv, th) == IF soft THEN soft_cpu(uv, th) ELSE hard_cpu(uv, th)

\* the iterate kernel's thresholding of one entry
threshold_gpu(soft, uv, th) ==
    IF Lt(uv, th) /\ Gt(uv, Neg(th)) THEN Zero
    ELSE IF soft THEN (IF Gt(uv, Zero) THEN Sub(uv, th) ELSE Add(uv, th))
    ELSE uv

\* thresh = adapt*thresh; thresh[thresh < min_thresh] = min_thresh
decay_cpu(th) ==
    LET t == Mul(self.adapt, th)
    IN IF Lt(t, self.min_thresh) THEN self.min_thresh ELSE t

\* np.mean((X.T - s.dot(Q))**2)
Residual(q, x, ss) == [st \in Stims |-> [d \in Dims |->
    Sub(x[st][d], SumTo([i \in Units |-> Mul(ss[st][i], q[i][d])], nunits))]]

Square(a) == Mul(a, a)

MeanSq(r) ==
    Div(SumTo([st \in Stims |->
                 SumTo([d \in Dims |-> Square(r[st][d])], datasize)], batch_size),
        Float(batch_size * datasize, 1))

\* np.max(np.isnan(u))
AnyNan(uu) == \E st \in Stims, i \in Units : IsNan(uu[st][i])

\* Mutant of LoopCond: one block too many under a cap.
LoopCond_one_more(err, tol, cap, k) ==
    Gt(err, tol) /\ (~cap.some \/ k <= cap.v)

\* line 123: the outer loop's condition
LoopCond(err, tol, cap, k) ==
    Gt(err, tol) /\ (~cap.some \/ k < cap.v)

\* --------------------------------------------------------- inference: steps
\* LCALearner.infer(X, infplots, tolerance, max_iter): dispatch on self.gpu,
\* then the chosen backend's initialisation up to its loop.
InferEnter(x, tol, cap, who) ==
    /\ X' = x
    /\ caller' = who
    /\ arg_tolerance' = tol
    /\ arg_max_iter' = cap
    /\ u' = ZeroMat
    /\ s' = ZeroMat
    /\ ci' = ZeroMat
    /\ kk' = 0
    /\ outer_k' = 0
    /\ tpc' = [st \in Stims |-> [i \in Units |-> "end"]]
    /\ treg' = ZeroMat
    /\ exc' = NoExc
    /\ IF self.gpu
       THEN /\ tolerance' = NoneF
            /\ max_iter' = None
            /\ thresh' = thresh_init_gpu(Q, x)
            /\ error' = Zero
            /\ pc' = "gpu_for"
       ELSE /\ tolerance' = OrFloat(tol, SomeF(self.tolerance))
            /\ max_iter' = OrInt(cap, self.max_iter)
            /\ thresh' = thresh_init_cpu(Q, x)
            /\ error' = Add(OrFloat(tol, SomeF(self.tolerance)).v, One)
            /\ pc' = "while"

\* infer_cpu line 123: the head of the outer loop.
WhileHead ==
    /\ pc = "while"
    /\ IF LoopCond(error, tolerance.v, max_iter, outer_k)
       THEN /\ outer_k < MaxOuter
            /\ kk' = 0
            /\ pc' = "for"
       ELSE /\ kk' = kk
            /\ pc' = "done"
    /\ UNCHANGED <<self, Q, caller, exc, X, arg_max_iter, arg_tolerance, tolerance,
                   max_iter, u, s, ci, thresh, error, outer_k, tpc, treg,
                   statVars, runVars>>

\* infer_cpu lines 124-143: one inner iteration, or the ValueError of line 129.
InnerIterate ==
    /\ pc = "for"
    /\ kk < self.niter
    /\ LET ci1 == Competition(s, c_cpu(Q))
           bb == b_of(Q, X)
           u1 == [st \in Stims |-> [i \in Units |->
                    Leaky(self.infrate, bb[st][i], ci1[st][i], u[st][i])]]
       IN /\ ci' = ci1
          /\ u' = u1
          /\ IF AnyNan(u1)
             THEN /\ exc' = [type |-> "ValueError", at |-> kk]
                  /\ pc' = "raised"
                  /\ UNCHANGED <<s, thresh, kk>>
             ELSE /\ s' = [st \in Stims |-> [i \in Units |->
                            threshold_cpu(self.softthresh, u1[st][i], thresh[st])]]
                  /\ thresh' = [st \in Stims |-> decay_cpu(thresh[st])]
                  /\ kk' = kk + 1
                  /\ UNCHANGED <<exc, pc>>
    /\ UNCHANGED <<self, Q, caller, X, arg_max_iter, arg_tolerance, tolerance,
                   max_iter, error, outer_k, tpc, treg, statVars, runVars>>

\* infer_cpu lines 145-146: the block is over, measure the error.
EndBlock ==
    /\ pc = "for"
    /\ kk = self.niter
    /\ error' = MeanSq(Residual(Q, X, s))
    /\ outer_k' = outer_k + 1
    /\ pc' = "while"
    /\ UNCHANGED <<self, Q, caller, exc, X, arg_max_iter, arg_tolerance, tolerance,
                   max_iter, u, s, ci, thresh, kk, tpc, treg, statVars, runVars>>

\* infer_gpu lines 273-279: launch the next iteration's gemm and kernel, or
\* copy the result back and return.
GpuFor ==
    /\ pc = "gpu_for"
    /\ IF kk < self.niter
       THEN /\ ci' = Competition(s, c_gpu(Q))
            /\ tpc' = [st \in Stims |-> [i \in Units |-> "upd"]]
            /\ pc' = "kernel"
       ELSE /\ pc' = "done"
            /\ UNCHANGED <<ci, tpc>>
    /\ UNCHANGED <<self, Q, caller, exc, X, arg_max_iter, arg_tolerance, tolerance,
                   max_iter, u, s, thresh, error, outer_k, kk, treg,
                   statVars, runVars>>

\* iterate, lines 227-236, thread (st, i): update u and threshold it against
\* the value of thresh[st] the thread reads (one load serves lines 228-234).
KernelUpdate(st, i) ==
    /\ pc = "kernel"
    /\ tpc[st][i] = "upd"
    /\ LET u1 == Leaky(self.infrate, b_of(Q, X)[st][i], ci[st][i], u[st][i])
       IN /\ u' = [u EXCEPT ![st][i] = u1]
          /\ s' = [s EXCEPT ![st][i] = threshold_gpu(self.softthresh, u1, thresh[st])]
    /\ tpc' = [tpc EXCEPT ![st][i] = "load"]
    /\ UNCHANGED <<self, Q, pc, caller, exc, X, arg_max_iter, arg_tolerance,
                   tolerance, max_iter, ci, thresh, error, outer_k, kk, treg,
                   statVars, runVars>>

\* iterate, line 237, thread (st, i): load thresh[st].
KernelLoad(st, i) ==
    /\ pc = "kernel"
    /\ tpc[st][i] = "load"
    /\ treg' = [treg EXCEPT ![st][i] = thresh[st]]
    /\ tpc' = [tpc EXCEPT ![st][i] = "store"]
    /\ UNCHANGED <<self, Q, pc, caller, exc, X, arg_max_iter, arg_tolerance,
                   tolerance, max_iter, u, s, ci, thresh, error, outer_k, kk,
                   statVars, runVars>>

\* iterate, line 237, thread (st, i): store thresh[st]*adapt.
KernelStore(st, i) ==
    /\ pc = "kernel"
    /\ tpc[st][i] = "store"
    /\ thresh' = [thresh EXCEPT ![st] = Mul(treg[st][i], self.adapt)]
    /\ treg' = [treg EXCEPT ![st][i] = Mul(treg[st][i], self.adapt)]
    /\ tpc' = [tpc EXCEPT ![st][i] = "floor"]
    /\ UNCHANGED <<self, Q, pc, caller, exc, X, arg_max_iter, arg_tolerance,
                   tolerance, max_iter, u, s, ci, error, outer_k, kk,
                   statVars, runVars>>

\* iterate, lines 238-239, thread (st, i): floor thresh[st] at lamb.  The
\* value tested is the thread's own store (forwarded) or what memory holds.
KernelFloor(st, i) ==
    /\ pc = "kernel"
    /\ tpc[st][i] = "floor"
    /\ \E seen \in {treg[st][i], thresh[st]} :
          thresh' = IF Lt(seen, self.min_thresh)
                    THEN [thresh EXCEPT ![st] = self.min_thresh]
                    ELSE thresh
    /\ tpc' = [tpc EXCEPT ![st][i] = "end"]
    /\ UNCHANGED <<self, Q, pc, caller, exc, X, arg_max_iter, arg_tolerance,
                   tolerance, max_iter, u, s, ci, error, outer_k, kk, treg,
                   statVars, runVars>>

\* The kernel launch is over when every thread has finished.
KernelDone ==
    /\ pc = "kernel"
    /\ \A st \in Stims, i \in Units : tpc[st][i] = "end"
    /\ kk' = kk + 1
    /\ treg' = ZeroMat
    /\ pc' = "gpu_for"
    /\ UNCHANGED <<self, Q, caller, exc, X, arg_max_iter, arg_tolerance, tolerance,
                   max_iter, u, s, ci, thresh, error, outer_k, tpc,
                   statVars, runVars>>

\* ------------------------------------------------------- dictionary update
\* learn line 113: Q + learnrate*np.dot(coeffs, R); ss[st][i] is coeffs[i][st]
GradStep(q, r, ss, lr) == [i \in Units |-> [d \in Dims |->
    Add(q[i][d], Mul(lr, SumTo([st \in Stims |-> Mul(ss[st][i], r[st][d])],
                               batch_size)))]]

\* np.dot(Q.T, Q)[d][e]
Gram(q) == [d \in Dims |-> [e \in Dims |->
    SumTo([i \in Units |-> Mul(q[i][d], q[i][e])], nunits)]]

\* learn lines 116-117: Q + theta*(Q - Q.dot(Q.T.dot(Q)))
ThetaStep(q, th) == [i \in Units |-> [e \in Dims |->
    Add(q[i][e],
        Mul(th, Sub(q[i][e],
                    SumTo([d \in Dims |-> Mul(q[i][d], Gram(q)[d][e])], datasize))))]]

\* np.sqrt(np.sum(Q*Q, 1))[i]: the Euclidean norm of row i
RowNorm(q, i) == Sqrt(SumTo([d \in Dims |-> Mul(q[i][d], q[i][d])], datasize))

\* learn lines 120-121: np.diag(1./norms).dot(Q), a full matrix product
Normalized(q) ==
    LET normmatrix == [i \in Units |-> [k \in Units |->
                          IF i = k THEN Div(One, RowNorm(q, i)) ELSE Zero]]
    IN [i \in Units |-> [d \in Dims |->
          SumTo([k \in Units |-> Mul(normmatrix[i][k], q[k][d])], nunits)]]

\* self.theta != 0
NonZero(a) == ~(IsFinite(a) /\ a.n = 0)

\* The dictionary learn(data, coeffs, normalize) leaves in self.Q.
learn_Q(q, x, ss, norm) ==
    LET q1 == GradStep(q, Residual(q, x, ss), ss, self.learnrate)
        q2 == IF NonZero(self.theta) THEN ThetaStep(q1, self.theta) ELSE q1
    IN IF norm THEN Normalized(q2) ELSE q2

\* ----------------------------------------------------------------- statistics
\* the moving average (1 - rate)*old + rate*new
MovAvg(old, new) ==
    Add(Mul(Sub(One, self.moving_avg_rate), old), Mul(self.moving_avg_rate, new))

\* 1.0 where acts != 0 (NaN != 0 is true), else 0.0
NonZeroInd(a) == IF NonZero(a) THEN One ELSE Zero

\* f(acts).mean(1)[i]: the mean over the stimuli of unit i's row
UnitMean(f) == [i \in Units |-> Mean([st \in Stims |-> f[st][i]], batch_size)]

\* np.mean(f(acts)): the mean over all entries
AllMean(f) ==
    Div(SumTo([st \in Stims |-> SumTo([i \in Units |-> f[st][i]], nunits)], batch_size),
        Float(batch_size * nunits, 1))

\* store_statistics lines 168-169: the centred correlation matrix of this batch
CorrMatrix(ss) ==
    LET means == UnitMean(ss)
        devs == [st \in Stims |-> [i \in Units |-> Sub(ss[st][i], means[i])]]
    IN [i \in Units |-> [j \in Units |->
          Div(SumTo([st \in Stims |-> Mul(devs[st][i], devs[st][j])], batch_size),
              Float(batch_size, 1))]]

\* Mutant of np_append: a window that drops the oldest entry.
np_append_windowed(hist, value) ==
    IF Len(hist) = 0 THEN <<value>> ELSE Append(Tail(hist), value)

\* np.append(hist, value): a new array, one entry longer
np_append(hist, value) == Append(hist, value)

\* A two-dimensional ndarray.
Matrix(m) == [ndim |-> 2, a |-> m]
\* A one-dimensional ndarray.
Vector(v) == [ndim |-> 1, a |-> <<v>>]

\* Entry (i, j) of corr when it is broadcast against an nunits x nunits matrix
\* (store_statistics line 172): a one-dimensional corr is repeated along the rows.
Broadcast(corr, i, j) == IF corr.ndim = 2 THEN corr.a[i][j] ELSE corr.a[1][j]

\* ------------------------------------------------------------------ run
\* run line 136: a checkpoint every 1000 trials.
CheckpointInterval == 1000

\* Mutant of SaveDue: the final trial is not saved.
SaveDue_not_final(t, n) == t % CheckpointInterval = 0 /\ t # 0

\* run line 136: is a checkpoint save due in this trial?
SaveDue(t, n) == (t % CheckpointInterval = 0 \/ t + 1 = n) /\ t # 0

\* LCALearner.adjust_rates: the learning rate alone
adjust_rates_lca(slf, factor) == [slf EXCEPT !.learnrate = Mul(factor, slf.learnrate)]

\* DictLearner.adjust_rates: the learning rate and theta
adjust_rates_base(slf, factor) ==
    [slf EXCEPT !.learnrate = Mul(factor, slf.learnrate),
                !.theta = Mul(factor, slf.theta)]

\* The histories tuple save pickles and load restores.
Histories == [errorhist |-> errorhist, meanacts |-> meanacts, L0acts |-> L0acts,
              L0hist |-> L0hist, L1acts |-> L1acts, L1hist |-> L1hist,
              L2hist |-> L2hist, L2acts |-> L2acts, corrmatrix_ave |-> corrmatrix_ave]

\* What save pickles (lines 296-301): [self.Q, params, histories].
save_dump == [kind |-> "save", Q |-> Q, params |-> self, histories |-> Histories]

\* The dictionary and statistics of the learner, as they are now.
Snapshot == [Q |-> Q, histories |-> Histories]

\* run(ntrials, rate_decay = decay, normalize = norm) on an idle learner.
RunCall(n, decay, norm) ==
    /\ pc = "idle"
    /\ ntrials' = n
    /\ rate_decay' = decay
    /\ normalize' = norm
    /\ trial' = 0
    /\ saves' = {}
    /\ ndecay' = 0
    /\ pc' = "trial"
    /\ UNCHANGED <<self, Q, caller, exc, inferVars, statVars, thiserror, file, saved>>

\* run lines 126-131: the loop head; a further trial fetches a batch and
\* calls infer(X), or the loop is over and run returns.
TrialStart ==
    /\ pc = "trial"
    /\ IF trial < ntrials
       THEN \E x \in StimBatches(self.stims) : InferEnter(x, NoneF, None, "run")
       ELSE /\ pc' = "run_done"
            /\ UNCHANGED <<caller, exc, inferVars>>
    /\ UNCHANGED <<self, Q, statVars, runVars>>

\* run line 132: thiserror = self.learn(X, acts, normalize), acts being the
\* coefficients infer returned.
Learn ==
    /\ pc = "done"
    /\ caller = "run"
    /\ Q' = learn_Q(Q, X, s, normalize)
    /\ thiserror' = MeanSq(Residual(Q, X, s))
    /\ pc' = "stats"
    /\ UNCHANGED <<self, caller, exc, inferVars, statVars,
                   ntrials, trial, rate_decay, normalize, file, saved, saves, ndecay>>

\* run line 134: store_statistics(acts, thiserror, batch_size).
StoreStatistics ==
    /\ pc = "stats"
    /\ L2acts' = [i \in Units |->
           MovAvg(L2acts[i], UnitMean([st \in Stims |-> [j \in Units |-> Square(s[st][j])]])[i])]
    /\ L1acts' = [i \in Units |->
           MovAvg(L1acts[i], UnitMean([st \in Stims |-> [j \in Units |-> Absolute(s[st][j])]])[i])]
    /\ L0acts' = [i \in Units |->
           MovAvg(L0acts[i], UnitMean([st \in Stims |-> [j \in Units |-> NonZeroInd(s[st][j])]])[i])]
    /\ meanacts' = [i \in Units |-> MovAvg(meanacts[i], UnitMean(s)[i])]
    /\ errorhist' = np_append(errorhist, thiserror)
    /\ L0hist' = np_append(L0hist, AllMean([st \in Stims |-> [j \in Units |-> NonZeroInd(s[st][j])]]))
    /\ L1hist' = np_append(L1hist, AllMean([st \in Stims |-> [j \in Units |-> Absolute(s[st][j])]]))
    /\ L2hist' = np_append(L2hist, AllMean([st \in Stims |-> [j \in Units |-> Square(s[st][j])]]))
    /\ corrmatrix_ave' =
          IF self.fastmode THEN corrmatrix_ave
          ELSE Matrix([i \in Units |-> [j \in Units |->
                   MovAvg(Broadcast(corrmatrix_ave, i, j), CorrMatrix(s)[i][j])]])
    /\ pc' = "ckpt"
    /\ UNCHANGED <<self, Q, caller, exc, inferVars, runVars>>

\* What one attempt to save does (run lines 137-141, save lines 291-301):
\* "caught": the print of line 138 raises TypeError on a None paramfile, which
\* run catches; "NotImplementedError": get_param_list is not overridden;
\* "OSError": the file cannot be opened or written; "saved": the dump succeeds.
SaveOutcomes(slf) ==
    IF ~slf.paramfile.some THEN {"caught"}
    ELSE IF ~slf.has_param_list THEN {"NotImplementedError"}
    ELSE {"saved", "OSError"}

\* run's except clause (line 140) catches ValueError and TypeError only.
Propagates(outcome) == outcome \in {"NotImplementedError", "OSError"}

\* run lines 136-141: the checkpoint of this trial, when one is due.
Checkpoint ==
    /\ pc = "ckpt"
    /\ IF SaveDue(trial, ntrials)
       THEN /\ saves' = saves \cup {[t |-> trial, hist |-> Len(errorhist), dec |-> ndecay]}
            /\ \E outcome \in SaveOutcomes(self) :
                  /\ file' = IF outcome = "saved" THEN <<save_dump>> ELSE file
                  /\ saved' = IF outcome = "saved" THEN <<Snapshot>> ELSE saved
                  /\ IF Propagates(outcome)
                     THEN /\ exc' = [type |-> outcome, at |-> trial]
                          /\ pc' = "raised"
                     ELSE /\ exc' = exc
                          /\ pc' = "decay"
       ELSE /\ pc' = "decay"
            /\ UNCHANGED <<saves, file, saved, exc>>
    /\ UNCHANGED <<self, Q, caller, inferVars, statVars,
                   ntrials, trial, rate_decay, normalize, thiserror, ndecay>>

\* run lines 142-143 and the loop's increment: decay the rates if asked to.
Decay ==
    /\ pc = "decay"
    /\ IF rate_decay.some
       THEN /\ self' = adjust_rates_lca(self, rate_decay.v)
            /\ ndecay' = ndecay + 1
       ELSE UNCHANGED <<self, ndecay>>
    /\ trial' = trial + 1
    /\ pc' = "trial"
    /\ UNCHANGED <<Q, caller, exc, inferVars, statVars,
                   ntrials, rate_decay, normalize, thiserror, file, saved, saves>>

\* ------------------------------------------------------------ initial state
\* No call is running: the locals of infer and run hold nothing.
Idle ==
    /\ pc = "idle"
    /\ caller = "top"
    /\ exc = NoExc
    /\ X = [st \in Stims |-> [d \in Dims |-> Zero]]
    /\ arg_max_iter = None
    /\ arg_tolerance = NoneF
    /\ tolerance = NoneF
    /\ max_iter = None
    /\ u = ZeroMat
    /\ s = ZeroMat
    /\ ci = ZeroMat
    /\ thresh = [st \in Stims |-> Zero]
    /\ error = Zero
    /\ outer_k = 0
    /\ kk = 0
    /\ tpc = [st \in Stims |-> [i \in Units |-> "end"]]
    /\ treg = ZeroMat
    /\ ntrials = 0
    /\ trial = 0
    /\ rate_decay = NoneF
    /\ normalize = TRUE
    /\ thiserror = Zero
    /\ saves = {}
    /\ ndecay = 0

\* DictLearner.initialize_stats
InitStats ==
    /\ corrmatrix_ave = Matrix([i \in Units |-> [j \in Units |-> Zero]])
    /\ L0hist = <<>>
    /\ L1hist = <<>>
    /\ L2hist = <<>>
    /\ L0acts = [i \in Units |-> Zero]
    /\ L1acts = [i \in Units |-> Zero]
    /\ L2acts = [i \in Units |-> Zero]
    /\ errorhist = <<>>
    /\ meanacts = [i \in Units |-> Zero]

\* LCALearner.__init__ for a study of inference: every inference
\* hyperparameter varies, the learning ones are fixed.
InitInfer ==
    /\ self \in [gpu : BOOLEAN, softthresh : BOOLEAN,
                 adapt : {Half, Float(2, 1)},
                 infrate : {Half, One, Float(3, 1)},
                 niter : 1..MaxNiter,
                 min_thresh : {Half},
                 tolerance : {Float(1, 4)},
                 max_iter : Caps,
                 learnrate : {One},
                 theta : {Zero},
                 moving_avg_rate : {Half},
                 paramfile : {NoneS},
                 has_param_list : {FALSE},
                 fastmode : {FALSE},
                 stims : {StimValues}]
    /\ Q \in RandDicts
    /\ file = <<>>
    /\ saved = <<>>
    /\ InitStats
    /\ Idle

\* A direct call infer(X, tolerance = tol, max_iter = cap).
InferCall ==
    /\ pc = "idle"
    /\ \E x \in Batches, tol \in TolArgs, cap \in Caps :
          \* infer hands neither argument to infer_gpu (line 284): on that
          \* backend the calls followed are those that pass none.
          /\ self.gpu => (tol = NoneF /\ cap = None)
          /\ InferEnter(x, tol, cap, "top")
    /\ UNCHANGED <<self, Q, statVars, runVars>>

Kernel ==
    \E st \in Stims, i \in Units :
        \/ KernelUpdate(st, i)
        \/ KernelLoad(st, i)
        \/ KernelStore(st, i)
        \/ KernelFloor(st, i)

NextInfer ==
    \/ InferCall
    \/ WhileHead
    \/ InnerIterate
    \/ EndBlock
    \/ GpuFor
    \/ Kernel
    \/ KernelDone

SpecInfer == InitInfer /\ [][NextInfer]_vars

\* ------------------------------------------------------------- the trial loop
\* LCALearner.__init__ for a study of run: the learning hyperparameters and
\* the checkpoint configuration vary, inference runs on the CPU.
Init ==
    /\ self \in [gpu : {FALSE}, softthresh : {FALSE},
                 adapt : {Half},
                 infrate : {One},
                 niter : {1},
                 min_thresh : {Half},
                 tolerance : {Float(1, 4)},
                 max_iter : {Some(MaxCap)},
                 learnrate : {One},
                 theta : {Zero, One},
                 moving_avg_rate : {Half},
                 paramfile : {NoneS, SomeS("params.pickle")},
                 has_param_list : BOOLEAN,
                 fastmode : BOOLEAN,
                 stims : {StimValues}]
    /\ Q \in RandDicts
    /\ file = <<>>
    /\ saved = <<>>
    /\ InitStats
    /\ Idle

\* A call run(ntrials = n, rate_decay = decay, normalize = norm).
RunStart ==
    \E n \in 1..MaxTrials, decay \in {NoneF, SomeF(Half)}, norm \in BOOLEAN :
        RunCall(n, decay, norm)

\* With self.gpu false the kernel steps are never enabled and are left out.
Next ==
    \/ RunStart
    \/ TrialStart
    \/ WhileHead
    \/ InnerIterate
    \/ EndBlock
    \/ Learn
    \/ StoreStatistics
    \/ Checkpoint
    \/ Decay

Spec == Init /\ [][Next]_vars

\* ===================================================================== claims
AllFinite(m) == \A st \in Stims, i \in Units : IsFinite(m[st][i])

\* infer is between two inner iterations (not inside a kernel launch).
BetweenIterations == pc \in {"while", "for", "gpu_for", "done"}

\* C1: on both backends every entry of the threshold vector is >= min_thresh
\* at initialisation and after every inner iteration.
C1_ThreshAtLeastMin ==
    BetweenIterations => \A st \in Stims : Ge(thresh[st], self.min_thresh)

\* C2 as stated: on the CPU backend the error is measured only after a block
\* of exactly niter inner steps, a block is (re)run exactly when the measured
\* error exceeds the tolerance and fewer than max_iter blocks have run, a
\* repeated block starts from the u, s and thresholds of the previous one, and
\* done is entered only from a convergence check that follows a block.
C2_BlockSteps ==
    /\ (pc = "while" /\ pc' = "for") => (kk' = 0 /\ u' = u /\ s' = s /\ thresh' = thresh)
    /\ (pc = "for" /\ pc' = "for") => kk' = kk + 1
    /\ (pc = "for" /\ pc' = "while") =>
          (kk = self.niter /\ outer_k' = outer_k + 1
           /\ error' = MeanSq(Residual(Q, X, s')))
    /\ (pc = "while" /\ outer_k >= 1 /\ pc' # pc) =>
          (pc' = "for" <=> (Gt(error, tolerance.v)
                            /\ (max_iter.some => outer_k < max_iter.v)))

C2_Original ==
    [][~self.gpu =>
         /\ C2_BlockSteps
         /\ (pc # "done" /\ pc' = "done") => (pc = "while" /\ outer_k >= 1)]_vars

\* C2 as amended: as above, except that done is entered straight from the
\* initialisation, with no block run, exactly when the cap in force is <= 0.
C2_StateMachine ==
    [][~self.gpu =>
         /\ C2_BlockSteps
         /\ (pc # "done" /\ pc' = "done") =>
               /\ pc = "while"
               /\ outer_k = 0 <=> (max_iter.some /\ max_iter.v <= 0)]_vars

\* C2's case: a block was repeated and the call then returned.
C2_Witness == ~self.gpu /\ pc = "done" /\ outer_k = 2 /\ kk = self.niter

\* C3: infer never returns (reaches done) with a non-finite entry in u or s.
C3_NoNonFiniteResult == pc = "done" => (AllFinite(u) /\ AllFinite(s))

\* The thresholding rule on finite values, th being the threshold compared
\* with; zeroAt says whether hard mode yields 0 (else u) when |u| = th.
ThresholdRule(soft, uv, th, sv, zeroAt) ==
    (IsFinite(uv) /\ IsFinite(th)) =>
        IF Lt(Absolute(uv), th) THEN sv = Zero
        ELSE IF Gt(Absolute(uv), th)
             THEN sv = (IF soft THEN Mul(Sign(uv), Sub(Absolute(uv), th)) ELSE uv)
        ELSE sv = (IF soft \/ zeroAt THEN Zero ELSE uv)

\* The steps that threshold: an inner iteration of infer_cpu (every unit of
\* every stimulus) and the update step of a kernel thread (its own unit).
ThresholdSteps(zeroAt) ==
    /\ (pc = "for" /\ pc' = "for") =>
          \A st \in Stims, i \in Units :
             ThresholdRule(self.softthresh, u'[st][i], thresh[st], s'[st][i], zeroAt)
    /\ pc = "kernel" =>
          \A st \in Stims, i \in Units :
             (tpc[st][i] = "upd" /\ tpc'[st][i] = "load") =>
                ThresholdRule(self.softthresh, u'[st][i], thresh[st], s'[st][i], zeroAt)

\* C4 as stated: for |u| < theta both modes yield 0, for |u| > theta hard mode
\* yields u and soft mode sign(u)*(|u| - theta), and for |u| = theta soft mode
\* yields magnitude |u| - theta = 0 and hard mode yields 0.
C4_Original == [][ThresholdSteps(TRUE)]_vars

\* C4 as amended: the same, except that for |u| = theta hard mode yields u.
C4_Thresholding == [][ThresholdSteps(FALSE)]_vars

\* C4's case: in hard mode the first iteration left a unit with |u| equal to
\* the threshold it was compared with, and its output is u, not 0.
C4_Witness ==
    /\ ~self.gpu /\ ~self.softthresh
    /\ pc = "for" /\ outer_k = 0 /\ kk = 1
    /\ \E st \in Stims, i \in Units :
          /\ Absolute(u[st][i]) = thresh_init_cpu(Q, X)[st]
          /\ NonZero(u[st][i])
          /\ s[st][i] = u[st][i]

\* C5: a finite cap m passed by the caller bounds the blocks run by m, and a
\* cap passed by the caller (0 included) is never turned into "no cap".
C5_CallerCapRespected ==
    (~self.gpu /\ BetweenIterations /\ arg_max_iter.some) =>
        (max_iter.some /\ outer_k <= arg_max_iter.v)

\* One decay of a threshold: max(min_thresh, adapt*theta).
DecayedOnce(th) == Maximum(self.min_thresh, Mul(self.adapt, th))

\* C6: on every backend and under every interleaving of the kernel threads
\* the first inner iteration is one synchronous sweep: u is computed from the
\* initial state, every unit of a stimulus is thresholded against that
\* stimulus's initial threshold, and the threshold is then decayed exactly once.
C6_FirstSweepSynchronous ==
    LET swept(init, thresholded(_, _, _)) ==
          \A st \in Stims :
             /\ thresh[st] = DecayedOnce(init[st])
             /\ \A i \in Units :
                   /\ u[st][i] = Leaky(self.infrate, b_of(Q, X)[st][i], Zero, Zero)
                   /\ s[st][i] = thresholded(self.softthresh, u[st][i], init[st])
    IN /\ (~self.gpu /\ pc = "for" /\ outer_k = 0 /\ kk = 1) =>
             swept(thresh_init_cpu(Q, X), threshold_cpu)
       /\ (self.gpu /\ pc = "gpu_for" /\ kk = 1) =>
             swept(thresh_init_gpu(Q, X), threshold_gpu)

\* --------------------------------------------------- the checkpoint cadence
\* A learner whose stimulus set delivers silence: every trial infers zero
\* coefficients and leaves the dictionary alone, so that runs long enough to
\* pass a multiple of CheckpointInterval can be followed.
InitCadence ==
    /\ self \in [gpu : {FALSE}, softthresh : {FALSE},
                 adapt : {Half},
                 infrate : {One},
                 niter : {1},
                 min_thresh : {Half},
                 tolerance : {Float(1, 4)},
                 max_iter : {Some(1)},
                 learnrate : {One},
                 theta : {Zero},
                 moving_avg_rate : {Half},
                 paramfile : {NoneS, SomeS("params.pickle")},
                 has_param_list : {TRUE},
                 fastmode : {TRUE},
                 stims : {{Zero}}]
    /\ Q = [i \in Units |-> [d \in Dims |-> One]]
    /\ file = <<>>
    /\ saved = <<>>
    /\ InitStats
    /\ Idle

\* run(ntrials = n, rate_decay = decay) for a short and for a long run.
RunStartCadence ==
    \E n \in {1, 2, CheckpointInterval + 2}, decay \in {NoneF, SomeF(One)} :
        RunCall(n, decay, TRUE)

NextCadence ==
    \/ RunStartCadence
    \/ TrialStart
    \/ WhileHead
    \/ InnerIterate
    \/ EndBlock
    \/ Learn
    \/ StoreStatistics
    \/ Checkpoint
    \/ Decay

SpecCadence == InitCadence /\ [][NextCadence]_vars

\* C7: after initialisation and right after every learn call with
\* normalisation enabled every row of Q has Euclidean norm 1.
C7_RowsUnitNorm ==
    (pc = "idle" \/ (pc = "stats" /\ normalize)) =>
        \A i \in Units : RowNorm(Q, i) = One

\* C8: learn with normalisation enabled never returns normally leaving a
\* non-finite entry in Q (a zero-norm row makes it fail instead).
C8_NoNonFiniteDictionary ==
    (pc = "stats" /\ normalize) =>
        \A i \in Units, d \in Dims : IsFinite(Q[i][d])

SavedIn(t) == \E r \in saves : r.t = t

\* Every recorded attempt came after its trial's statistics were recorded
\* and before its trial's rate decay.
SaveOrdering ==
    \A r \in saves :
        /\ r.hist = r.t + 1
        /\ r.dec = IF rate_decay.some THEN r.t ELSE 0

\* C9 as stated: a save is attempted in the final trial and in every trial
\* whose index is a multiple of the checkpoint interval, after the trial's
\* statistics and before its rate decay.
C9_Original ==
    /\ pc = "decay" =>
          ((trial % CheckpointInterval = 0 \/ trial + 1 = ntrials) => SavedIn(trial))
    /\ SaveOrdering

\* C9 as amended: a save is attempted in exactly the trials of non-zero index
\* that are the final one or a multiple of the checkpoint interval, after the
\* trial's statistics and before its rate decay.
C9_Cadence ==
    /\ pc = "decay" =>
          (SavedIn(trial) <=>
             (trial # 0 /\ (trial % CheckpointInterval = 0 \/ trial + 1 = ntrials)))
    /\ pc \in {"trial", "while", "for", "done", "stats", "ckpt"} =>
          \A r \in saves : r.t < trial
    /\ SaveOrdering

\* C9's case: the final trial of a run of two trials has recorded its
\* statistics and attempted its save, and its rate decay is still to come.
C9_Witness ==
    /\ pc = "decay" /\ rate_decay.some
    /\ trial = 1 /\ ntrials = 2
    /\ SavedIn(trial) /\ ~SavedIn(0)
    /\ Len(errorhist) = 2 /\ ndecay = 1

\* C10: no failure of a checkpoint write attempted inside run propagates out
\* of run.
C10_SaveFailureContained ==
    ~(pc = "raised" /\ exc.type \in {"OSError", "NotImplementedError"})

\* ------------------------------------------------------------- rate decay
\* C11: one rate decay with factor f (the decay run applies after a trial
\* when rate_decay is set) multiplies both the learning rate and theta by f
\* and changes no other hyperparameter.
C11_DecayScalesBoth ==
    [][(pc = "decay" /\ rate_decay.some) =>
          self' = [self EXCEPT !.learnrate = Mul(rate_decay.v, self.learnrate),
                               !.theta = Mul(rate_decay.v, self.theta)]]_vars

\* ------------------------------------------------- sorting, saving, loading
\* No call is running: the learner was constructed ("idle") or its run has
\* returned ("run_done").
Between == pc \in {"idle", "run_done"}

runLocals == <<ntrials, trial, rate_decay, normalize, thiserror, saves, ndecay>>

\* The orderings of the units.
Perms == {p \in [Units -> Units] : \A i \in Units : \E j \in Units : p[j] = i}

\* a may stand before b in ascending order; np.argsort puts NaN last.
SortsBefore(a, b) == IsNan(b) \/ (~IsNan(a) /\ Le(a, b))

\* np.argsort(usages): the orderings that sort usages ascending.  The default
\* kind is not stable, so equal usages may come out in either order.
argsort(usages) ==
    {p \in Perms : \A i, j \in Units :
        i < j => SortsBefore(usages[p[i]], usages[p[j]])}

\* a[sorter] for a one-dimensional array or the rows of a matrix
Reordered(a, sorter) == [i \in Units |-> a[sorter[i]]]

\* DictLearner.sort, lines 259-264.  corrmatrix_ave[sorter, sorter] pairs the
\* two index arrays: of a matrix it takes the entries (sorter[i], sorter[i]),
\* a one-dimensional array; of a one-dimensional array it is an IndexError,
\* raised after the five assignments before it.
sort(sorter) ==
    /\ Q' = Reordered(Q, sorter)
    /\ L0acts' = Reordered(L0acts, sorter)
    /\ L1acts' = Reordered(L1acts, sorter)
    /\ L2acts' = Reordered(L2acts, sorter)
    /\ meanacts' = Reordered(meanacts, sorter)
    /\ IF corrmatrix_ave.ndim = 2
       THEN /\ corrmatrix_ave' =
                 Vector([i \in Units |-> corrmatrix_ave.a[sorter[i]][sorter[i]]])
            /\ UNCHANGED <<pc, exc>>
       ELSE /\ pc' = "raised"
            /\ exc' = [type |-> "IndexError", at |-> 0]
            /\ UNCHANGED corrmatrix_ave

\* DictLearner.fast_sort(L1), which LCALearner inherits: sort by the moving
\* average usage.
FastSort ==
    /\ Between
    /\ \E L1 \in BOOLEAN :
          \E sorter \in argsort(IF L1 THEN L1acts ELSE L0acts) : sort(sorter)
    /\ UNCHANGED <<self, caller, inferVars, errorhist, L0hist, L1hist, L2hist, runVars>>

\* LCALearner.sort_dict(batch_size = batch_size, allstims = False), lines
\* 174-176: fetch a test batch and infer its coefficients.
SortDictCall ==
    /\ Between
    /\ \E x \in StimBatches(self.stims) : InferEnter(x, NoneF, None, "sort_dict")
    /\ UNCHANGED <<self, Q, statVars, runVars>>

\* LCALearner.sort_dict, lines 177-182: order the rows of Q by their usage on
\* the test batch, and return to the caller (the learner is between calls
\* again: before its run when ntrials is still 0, after it otherwise).
SortDictFinish ==
    /\ pc = "done"
    /\ caller = "sort_dict"
    /\ LET means == UnitMean([st \in Stims |-> [j \in Units |-> NonZeroInd(s[st][j])]])
       IN \E sorter \in argsort(means) : Q' = Reordered(Q, sorter)
    /\ pc' = IF ntrials = 0 THEN "idle" ELSE "run_done"
    /\ caller' = "top"
    /\ UNCHANGED <<self, exc, inferVars, statVars, runVars>>

\* The method that wrote the file, "none" when there is no file.
FileKind == IF file = <<>> THEN "none" ELSE file[1].kind

\* DictLearner.save(), called directly (lines 291-301).
Save ==
    /\ Between
    /\ IF ~self.paramfile.some
       THEN /\ pc' = "raised"
            /\ exc' = [type |-> "ValueError", at |-> 0]
            /\ UNCHANGED <<file, saved>>
       ELSE IF ~self.has_param_list
       THEN /\ pc' = "raised"
            /\ exc' = [type |-> "NotImplementedError", at |-> 0]
            /\ UNCHANGED <<file, saved>>
       ELSE \/ /\ file' = <<save_dump>>
               /\ saved' = <<Snapshot>>
               /\ UNCHANGED <<pc, exc>>
            \/ /\ pc' = "raised"
               /\ exc' = [type |-> "OSError", at |-> 0]
               /\ UNCHANGED <<file, saved>>
    /\ UNCHANGED <<self, Q, caller, inferVars, statVars, runLocals>>

\* The params tuple of save_params and load_params (lines 194 and 206).
ParamNames == {"learnrate", "theta", "min_thresh", "infrate", "niter", "adapt",
               "max_iter", "tolerance"}
params_tuple(slf) == [f \in ParamNames |-> slf[f]]

\* What save_params pickles (line 208): [self.Q, params, self.errorhist].
save_params_dump ==
    [kind |-> "save_params", Q |-> Q, params |-> params_tuple(self),
     errorhist |-> errorhist]

\* LCALearner.save_params(), lines 201-208.
SaveParams ==
    /\ Between
    /\ IF ~self.paramfile.some
       THEN /\ pc' = "raised"
            /\ exc' = [type |-> "ValueError", at |-> 0]
            /\ UNCHANGED <<file, saved>>
       ELSE \/ /\ file' = <<save_params_dump>>
               /\ saved' = <<Snapshot>>
               /\ UNCHANGED <<pc, exc>>
            \/ /\ pc' = "raised"
               /\ exc' = [type |-> "OSError", at |-> 0]
               /\ UNCHANGED <<file, saved>>
    /\ UNCHANGED <<self, Q, caller, inferVars, statVars, runLocals>>

\* DictLearner.load(), lines 274-283, of a file that save wrote (or of none).
\* The assignments of lines 279-282 are made before set_params is called; a
\* class that defines get_param_list defines set_params, which puts the
\* pickled params back into the learner.
Load ==
    /\ Between
    /\ FileKind \in {"none", "save"}
    /\ IF ~self.paramfile.some
       THEN /\ pc' = "raised"
            /\ exc' = [type |-> "TypeError", at |-> 0]
            /\ UNCHANGED <<self, Q, statVars>>
       ELSE IF file = <<>>
       THEN /\ pc' = "raised"
            /\ exc' = [type |-> "FileNotFoundError", at |-> 0]
            /\ UNCHANGED <<self, Q, statVars>>
       ELSE /\ Q' = file[1].Q
            /\ errorhist' = file[1].histories.errorhist
            /\ meanacts' = file[1].histories.meanacts
            /\ L0acts' = file[1].histories.L0acts
            /\ L0hist' = file[1].histories.L0hist
            /\ L1acts' = file[1].histories.L1acts
            /\ L1hist' = file[1].histories.L1hist
            /\ L2hist' = file[1].histories.L2hist
            /\ L2acts' = file[1].histories.L2acts
            /\ corrmatrix_ave' = file[1].histories.corrmatrix_ave
            /\ IF self.has_param_list
               THEN /\ self' = file[1].params
                    /\ UNCHANGED <<pc, exc>>
               ELSE /\ pc' = "raised"
                    /\ exc' = [type |-> "NotImplementedError", at |-> 0]
                    /\ UNCHANGED self
    /\ UNCHANGED <<caller, inferVars, runVars>>

\* LCALearner.load_params(filename), lines 189-199, of a file that
\* save_params wrote (or of none).  Line 190 stores the filename argument,
\* None by default, before the file is opened.
LoadParams ==
    /\ Between
    /\ FileKind \in {"none", "save_params"}
    /\ \E filename \in {NoneS, self.paramfile} :
          IF ~filename.some
          THEN /\ self' = [self EXCEPT !.paramfile = filename]
               /\ pc' = "raised"
               /\ exc' = [type |-> "TypeError", at |-> 0]
               /\ UNCHANGED <<Q, errorhist>>
          ELSE IF file = <<>>
          THEN /\ self' = [self EXCEPT !.paramfile = filename]
               /\ pc' = "raised"
               /\ exc' = [type |-> "FileNotFoundError", at |-> 0]
               /\ UNCHANGED <<Q, errorhist>>
          ELSE /\ Q' = file[1].Q
               /\ errorhist' = file[1].errorhist
               /\ self' = [f \in DOMAIN self |->
                              IF f \in ParamNames THEN file[1].params[f]
                              ELSE IF f = "paramfile" THEN filename
                              ELSE self[f]]
               /\ UNCHANGED <<pc, exc>>
    /\ UNCHANGED <<caller, inferVars, L0hist, L1hist, L2hist, L0acts, L1acts, L2acts,
                   meanacts, corrmatrix_ave, runVars>>

\* LCALearner(...) is constructed anew with the hyperparameters in use: a
\* random dictionary, empty statistics; the file stays on disk.
NewLearner ==
    /\ pc = "run_done"
    /\ Q' \in RandDicts
    /\ corrmatrix_ave' = Matrix([i \in Units |-> [j \in Units |-> Zero]])
    /\ L0hist' = <<>>
    /\ L1hist' = <<>>
    /\ L2hist' = <<>>
    /\ errorhist' = <<>>
    /\ L0acts' = [i \in Units |-> Zero]
    /\ L1acts' = [i \in Units |-> Zero]
    /\ L2acts' = [i \in Units |-> Zero]
    /\ meanacts' = [i \in Units |-> Zero]
    /\ pc' = "idle"
    /\ ntrials' = 0
    /\ trial' = 0
    /\ rate_decay' = NoneF
    /\ normalize' = TRUE
    /\ thiserror' = Zero
    /\ saves' = {}
    /\ ndecay' = 0
    /\ UNCHANGED <<self, caller, exc, inferVars, file, saved>>

\* LCALearner.__init__ for a study of sorting, saving and loading.
InitOps ==
    /\ self \in [gpu : {FALSE}, softthresh : {FALSE},
                 adapt : {Half},
                 infrate : {One},
                 niter : {1},
                 min_thresh : {Half},
                 tolerance : {Float(1, 4)},
                 max_iter : {Some(1)},
                 learnrate : {One},
                 theta : {Zero},
                 moving_avg_rate : {Half},
                 paramfile : {NoneS, SomeS("params.pickle")},
                 has_param_list : BOOLEAN,
                 fastmode : BOOLEAN,
                 stims : {{Zero, One}}]
    /\ Q \in RandDicts
    /\ file = <<>>
    /\ saved = <<>>
    /\ InitStats
    /\ Idle

\* run(ntrials = n, rate_decay = decay) with decay among decays.
RunStartOps(decays) ==
    \E n \in 1..MaxTrials, decay \in decays : RunCall(n, decay, TRUE)

\* A learner that runs, sorts and saves, and never loads.
NextSort ==
    \/ RunStartOps({NoneF, SomeF(Half)})
    \/ TrialStart
    \/ WhileHead
    \/ InnerIterate
    \/ EndBlock
    \/ Learn
    \/ StoreStatistics
    \/ Checkpoint
    \/ Decay
    \/ FastSort
    \/ SortDictCall
    \/ SortDictFinish
    \/ Save
    \/ SaveParams

SpecSort == InitOps /\ [][NextSort]_vars

\* The learner that writes the file runs first: run is followed on a learner
\* constructed while there is no file.
RunStartRoundTrip == file = <<>> /\ RunStartOps({NoneF})

\* Learners that run, save and load, one after another on the same file.
NextRoundTrip ==
    \/ RunStartRoundTrip
    \/ TrialStart
    \/ WhileHead
    \/ InnerIterate
    \/ EndBlock
    \/ Learn
    \/ StoreStatistics
    \/ Checkpoint
    \/ Decay
    \/ Save
    \/ SaveParams
    \/ Load
    \/ LoadParams
    \/ NewLearner

SpecRoundTrip == InitOps /\ [][NextRoundTrip]_vars

\* ---------------------------------------------------------------- histories
\* h2 is h1 with exactly one entry appended.
OneLonger(h2, h1) == Len(h2) = Len(h1) + 1 /\ SubSeq(h2, 1, Len(h1)) = h1

\* C12: the trial's store_statistics step appends exactly one entry to each of
\* the four histories (error, L0, L1, L2), in fast mode as in normal mode; no
\* other step of a trial, sort, rate decay, save or inference changes a
\* history; hence with k trials completed (at the head of the trial loop and
\* when run has returned) each of the four histories has length k.
C12_HistoriesGrowByOne ==
    /\ [](pc \in {"idle", "trial", "run_done"} =>
            /\ Len(errorhist) = trial
            /\ Len(L0hist) = trial
            /\ Len(L1hist) = trial
            /\ Len(L2hist) = trial)
    /\ [][IF pc = "stats"
          THEN /\ OneLonger(errorhist', errorhist)
               /\ OneLonger(L0hist', L0hist)
               /\ OneLonger(L1hist', L1hist)
               /\ OneLonger(L2hist', L2hist)
          ELSE UNCHANGED <<errorhist, L0hist, L1hist, L2hist>>]_vars

\* C12's case: a run of two trials in fast mode has returned, with a rate
\* decay after each trial, a file saved and the dictionary sorted, and each
\* history holds two entries.
C12_Witness ==
    /\ pc = "run_done" /\ trial = 2
    /\ self.fastmode /\ rate_decay.some /\ ndecay = 2
    /\ file # <<>>
    /\ corrmatrix_ave.ndim = 1
    /\ Len(errorhist) = 2 /\ Len(L0hist) = 2 /\ Len(L1hist) = 2 /\ Len(L2hist) = 2

\* --------------------------------------------------------------- round trip
\* C13: a load that returns (load after save, load_params after save_params,
\* into the learner that saved or into a fresh one) leaves the learner with
\* the dictionary and with the histories and moving averages it had when the
\* file was written.
C13_RoundTrip ==
    [][((Load \/ LoadParams) /\ pc' # "raised") =>
          /\ saved # <<>>
          /\ Q' = saved[1].Q
          /\ Histories' = saved[1].histories]_vars

\* ------------------------------------------------------------------ sorting
\* C14: every sort operation applies one permutation to the rows of Q, to
\* each per-unit moving average and to both axes of the correlation matrix,
\* which stays nunits x nunits.
C14_OnePermutation ==
    [][(FastSort \/ SortDictFinish) =>
          \E p \in Perms :
             /\ Q' = Reordered(Q, p)
             /\ L0acts' = Reordered(L0acts, p)
             /\ L1acts' = Reordered(L1acts, p)
             /\ L2acts' = Reordered(L2acts, p)
             /\ meanacts' = Reordered(meanacts, p)
             /\ corrmatrix_ave.ndim = 2
             /\ corrmatrix_ave' = Matrix([i \in Units |-> [j \in Units |->
                                     corrmatrix_ave.a[p[i]][p[j]]]])]_vars

====
